---- MODULE Spec2Model ----
(***************************************************************************)
(* page_tracker/app.py: one Flask route, GET /, that increments the key    *)
(* "page_views" in Redis through a client memoized by functools.cache and  *)
(* renders the count, or logs and answers 500 when the client raises       *)
(* RedisError.                                                             *)
(*                                                                         *)
(* Requests are served by threads of one process.  A thread walks through  *)
(* index(): the memoized accessor redis() (cache lookup, on a miss         *)
(* os.getenv + Redis.from_url, then the cache store), the INCR call, and   *)
(* the return.  The environment and the availability of the Redis servers  *)
(* change under the process's feet.                                        *)
(*                                                                         *)
(* Optional values (an unset variable, an empty cache, a missing key, a    *)
(* local not yet bound) are sequences of length 0 or 1.                    *)
(***************************************************************************)
EXTENDS Integers, Sequences, FiniteSets

\* ------------------------------------------------------------------ bounds

NumThreads == 2
MaxRequests == 4
MaxInitial == 1

Threads == 1..NumThreads

\* ------------------------------------------------------- values and inputs

None == <<>>
Some(x) == <<x>>
IsSet(o) == Len(o) = 1
Get(o) == o[1]

\* The second argument of os.getenv on line 25, as the URL it spells.
DefaultUrl == [scheme |-> "redis", host |-> "localhost", port |-> 6379, db |-> 0]

\* Values REDIS_URL takes: another server, and a URL whose scheme redis-py
\* does not accept.
ServiceUrl == [scheme |-> "redis", host |-> "redis-service", port |-> 6379, db |-> 1]
MalformedUrl == [scheme |-> "http", host |-> "redis-service", port |-> 6379, db |-> 1]
EnvValues == {None, Some(ServiceUrl), Some(MalformedUrl)}

\* A server and database a client talks to.
Target(u) == [host |-> u.host, port |-> u.port, db |-> u.db]
Stores == {Target(DefaultUrl), Target(ServiceUrl)}

\* The key index() increments.
Key == "page_views"

\* str(n) as the f-string of line 18 renders it: decimal digits, most
\* significant first.
Digit(d) == CASE d = 0 -> "0" [] d = 1 -> "1" [] d = 2 -> "2" [] d = 3 -> "3"
              [] d = 4 -> "4" [] d = 5 -> "5" [] d = 6 -> "6" [] d = 7 -> "7"
              [] d = 8 -> "8" [] d = 9 -> "9"
RECURSIVE Str(_)
Str(n) == IF n < 10 THEN <<Digit(n)>> ELSE Str(n \div 10) \o <<Digit(n % 10)>>

\* Mutant of SeenBody: renders the count before the increment.
SeenBodyStale(page_views) ==
    <<"This page has been seen ">> \o Str(page_views - 1) \o <<" times.">>

\* Line 18: f"This page has been seen {page_views} times."
SeenBody(page_views) == <<"This page has been seen ">> \o Str(page_views) \o <<" times.">>

\* Line 16: the fixed body of the error answer.
SorryBody == <<"Sorry, something went wrong ", "\\N{pensive face}">>

\* Mutant of getenv: the variable is never read.
getenv_default_only(env, default) == default

\* os.getenv(name, default): the variable's value, the default when unset.
getenv(env, default) == IF IsSet(env) THEN Get(env) ELSE default

\* Redis.from_url accepts the schemes redis://, rediss:// and unix://, and
\* raises ValueError (not a RedisError) for any other.
from_url_ok(u) == u.scheme \in {"redis", "rediss", "unix"}

\* The client Redis.from_url builds: a new object (id) bound to the URL's
\* server and database.
from_url(u, id) == [id |-> id, host |-> u.host, port |-> u.port, db |-> u.db]

\* Mutant of incr: the key is incremented by 2.
incr_by_two(value) == (IF IsSet(value) THEN Get(value) ELSE 0) + 2

\* Redis INCR: a missing key counts as 0; the new value is stored and returned.
incr(value) == (IF IsSet(value) THEN Get(value) ELSE 0) + 1

\* ------------------------------------------------------------------- state

VARIABLES
    environ,      \* os.environ's REDIS_URL
    cache,        \* the memo of redis(): empty, or the client stored for the call ()
    pc,           \* where each thread is in index()
    client,       \* each thread's result of redis(), once it has one
    up,           \* per server: does it answer
    db,           \* per server: the value under Key, if any
    responses,    \* outcomes of index(), in completion order
    constructed,  \* Redis.from_url calls that returned, in order: env seen, client built
    incrCalls,    \* number of calls of .incr("page_views")
    initial,      \* the value under Key when the process started (never changes)
    outage,       \* servers that have been unreachable at some time
    overlapped    \* has a request started while another was in progress

vars == <<environ, cache, pc, client, up, db, responses, constructed, incrCalls,
          initial, outage, overlapped>>

InFlight == {t \in Threads : pc[t] # "idle"}

Init ==
    /\ environ \in EnvValues
    /\ cache = None
    /\ pc = [t \in Threads |-> "idle"]
    /\ client = [t \in Threads |-> None]
    /\ up \in [Stores -> BOOLEAN]
    /\ db \in [Stores -> {None} \cup {Some(v) : v \in 1..MaxInitial}]
    /\ responses = <<>>
    /\ constructed = <<>>
    /\ incrCalls = 0
    /\ initial = db
    /\ outage = {s \in Stores : ~up[s]}
    /\ overlapped = FALSE

\* ------------------------------------------------------------ the handler

\* A GET / arrives and a thread enters index().
Request(t) ==
    /\ pc[t] = "idle"
    /\ Len(responses) + Cardinality(InFlight) < MaxRequests
    /\ pc' = [pc EXCEPT ![t] = "redis"]
    /\ client' = [client EXCEPT ![t] = None]
    /\ overlapped' = (overlapped \/ InFlight # {})
    /\ UNCHANGED <<environ, cache, up, db, responses, constructed, incrCalls,
                   initial, outage>>

\* redis(): the wrapper of functools.cache looks the call up; a hit returns
\* the stored client, a miss goes on to call the function.
CacheLookup(t) ==
    /\ pc[t] = "redis"
    /\ IF IsSet(cache)
         THEN /\ client' = [client EXCEPT ![t] = cache]
              /\ pc' = [pc EXCEPT ![t] = "incr"]
         ELSE /\ pc' = [pc EXCEPT ![t] = "from_url"]
              /\ UNCHANGED client
    /\ UNCHANGED <<environ, cache, up, db, responses, constructed, incrCalls,
                   initial, outage, overlapped>>

\* What index() answers, or lets escape: the status and body it returns or
\* the exception it raises.  Recorded with it: the client it used and how often
\* it called incr and logged, the URL from_url refused, and whether the
\* client's server was reachable when incr was called.
Returned(status, body, c, attempts, logs) ==
    [kind |-> "return", status |-> status, body |-> body, client |-> c,
     attempts |-> attempts, logs |-> logs, url |-> None, reachable |-> FALSE]
Raised(exc, c, attempts, url) ==
    [kind |-> "raise", status |-> 0, body |-> <<exc>>, client |-> c,
     attempts |-> attempts, logs |-> 0, url |-> url, reachable |-> FALSE]

\* Mutant of IsRedisError: the except clause names too narrow a class.
IsResponseError(exc) == exc = "ResponseError"

\* redis.exceptions: ConnectionError, TimeoutError and ResponseError derive
\* from RedisError; ValueError does not.
IsRedisError(exc) == exc \in {"RedisError", "ConnectionError", "TimeoutError", "ResponseError"}

\* Mutant of except_clause: the except branch forgets to log.
except_clause_silent(exc, c, attempts, url) ==
    IF exc \in {"RedisError", "ConnectionError", "TimeoutError", "ResponseError"}
      THEN Returned(500, SorryBody, c, attempts, 0)
      ELSE Raised(exc, c, attempts, url)

\* Lines 14-16: an exception of the try block that is a RedisError is logged
\* once and answered with 500; any other leaves index().
except_clause(exc, c, attempts, url) ==
    IF IsRedisError(exc)
      THEN Returned(500, SorryBody, c, attempts, 1)
      ELSE Raised(exc, c, attempts, url)

\* The body of redis() on a miss: read REDIS_URL and build the client.  A
\* ValueError of from_url is no RedisError: nothing is stored in the memo, and
\* the except clause of index() lets it through.
FromUrl(t) ==
    /\ pc[t] = "from_url"
    /\ LET url == getenv(environ, DefaultUrl)
       IN IF from_url_ok(url)
            THEN LET c == from_url(url, Len(constructed) + 1)
                 IN /\ constructed' = Append(constructed, [env |-> environ, client |-> c])
                    /\ client' = [client EXCEPT ![t] = Some(c)]
                    /\ pc' = [pc EXCEPT ![t] = "cache_store"]
                    /\ UNCHANGED responses
            ELSE /\ responses' = Append(responses,
                        except_clause("ValueError", None, 0, Some(url)))
                 /\ pc' = [pc EXCEPT ![t] = "idle"]
                 /\ UNCHANGED <<constructed, client>>
    /\ UNCHANGED <<environ, cache, up, db, incrCalls, initial, outage, overlapped>>

\* The wrapper stores the result under the call's key, whatever is there, and
\* returns it.
CacheStore(t) ==
    /\ pc[t] = "cache_store"
    /\ cache' = client[t]
    /\ pc' = [pc EXCEPT ![t] = "incr"]
    /\ UNCHANGED <<environ, client, up, db, responses, constructed, incrCalls,
                   initial, outage, overlapped>>

\* Mutant of Incr: a failed incr is tried once more before giving up.
IncrRetry(t) ==
    /\ pc[t] = "incr"
    /\ LET s == Target(Get(client[t]))
           r == IF up[s]
                  THEN Returned(200, SeenBody(incr(db[s])), client[t], 1, 0)
                  ELSE Returned(500, SorryBody, client[t], 2, 1)
       IN /\ db' = IF up[s] THEN [db EXCEPT ![s] = Some(incr(db[s]))] ELSE db
          /\ responses' = Append(responses, [r EXCEPT !.reachable = up[s]])
    /\ incrCalls' = incrCalls + (IF up[Target(Get(client[t]))] THEN 1 ELSE 2)
    /\ pc' = [pc EXCEPT ![t] = "idle"]
    /\ UNCHANGED <<environ, cache, client, up, constructed, initial, outage, overlapped>>

\* Mutant of Incr: a client that failed once keeps failing.
IncrSticky(t) ==
    /\ pc[t] = "incr"
    /\ LET s == Target(Get(client[t]))
           broken == \E i \in 1..Len(responses) :
                        responses[i].status = 500 /\ responses[i].client = client[t]
           ok == up[s] /\ ~broken
           r == IF ok
                  THEN Returned(200, SeenBody(incr(db[s])), client[t], 1, 0)
                  ELSE Returned(500, SorryBody, client[t], 1, 1)
       IN /\ db' = IF ok THEN [db EXCEPT ![s] = Some(incr(db[s]))] ELSE db
          /\ responses' = Append(responses, [r EXCEPT !.reachable = up[s]])
    /\ incrCalls' = incrCalls + 1
    /\ pc' = [pc EXCEPT ![t] = "idle"]
    /\ UNCHANGED <<environ, cache, client, up, constructed, initial, outage, overlapped>>

\* Mutant of Incr: the handler reads the value and writes it back itself, and
\* the write of a request that runs beside another one is lost.
IncrLostUpdate(t) ==
    /\ pc[t] = "incr"
    /\ LET s == Target(Get(client[t]))
           lost == \E u \in Threads \ {t} : pc[u] = "incr"
           r == IF up[s]
                  THEN Returned(200, SeenBody(incr(db[s])), client[t], 1, 0)
                  ELSE Returned(500, SorryBody, client[t], 1, 1)
       IN /\ db' = IF up[s] /\ ~lost THEN [db EXCEPT ![s] = Some(incr(db[s]))] ELSE db
          /\ responses' = Append(responses, [r EXCEPT !.reachable = up[s]])
    /\ incrCalls' = incrCalls + 1
    /\ pc' = [pc EXCEPT ![t] = "idle"]
    /\ UNCHANGED <<environ, cache, client, up, constructed, initial, outage, overlapped>>

\* .incr("page_views") and the rest of index(): the server applies INCR and
\* the else branch renders the count; an unreachable server makes the client
\* raise ConnectionError, which the except clause handles.
Incr(t) ==
    /\ pc[t] = "incr"
    /\ LET s == Target(Get(client[t]))
           r == IF up[s]
                  THEN Returned(200, SeenBody(incr(db[s])), client[t], 1, 0)
                  ELSE except_clause("ConnectionError", client[t], 1, None)
       IN /\ db' = IF up[s] THEN [db EXCEPT ![s] = Some(incr(db[s]))] ELSE db
          /\ responses' = Append(responses, [r EXCEPT !.reachable = up[s]])
    /\ incrCalls' = incrCalls + 1
    /\ pc' = [pc EXCEPT ![t] = "idle"]
    /\ UNCHANGED <<environ, cache, client, up, constructed, initial, outage, overlapped>>

\* ------------------------------------------------------- the environment

\* REDIS_URL is set, changed or unset.
SetEnv(v) ==
    /\ v # environ
    /\ environ' = v
    /\ UNCHANGED <<cache, pc, client, up, db, responses, constructed, incrCalls,
                   initial, outage, overlapped>>

\* A server becomes unreachable.
StoreDown(s) ==
    /\ up[s]
    /\ up' = [up EXCEPT ![s] = FALSE]
    /\ outage' = outage \cup {s}
    /\ UNCHANGED <<environ, cache, pc, client, db, responses, constructed, incrCalls,
                   initial, overlapped>>

\* A server comes back.
StoreUp(s) ==
    /\ ~up[s]
    /\ up' = [up EXCEPT ![s] = TRUE]
    /\ UNCHANGED <<environ, cache, pc, client, db, responses, constructed, incrCalls,
                   initial, outage, overlapped>>

Next ==
    \/ \E t \in Threads : Request(t)
    \/ \E t \in Threads : CacheLookup(t)
    \/ \E t \in Threads : FromUrl(t)
    \/ \E t \in Threads : CacheStore(t)
    \/ \E t \in Threads : Incr(t)
    \/ \E v \in EnvValues : SetEnv(v)
    \/ \E s \in Stores : StoreDown(s)
    \/ \E s \in Stores : StoreUp(s)

Spec == Init /\ [][Next]_vars

\* ------------------------------------------------------------- properties

InitialValue(s) == IF IsSet(initial[s]) THEN Get(initial[s]) ELSE 0
StoredValue(s) == IF IsSet(db[s]) THEN Get(db[s]) ELSE 0

\* The requests that went to server s, and those of them answered 200.
IsAgainst(r, s) == r.kind = "return" /\ Target(Get(r.client)) = s
Against(s) == SelectSeq(responses, LAMBDA r : IsAgainst(r, s))
Seen(s) == SelectSeq(responses, LAMBDA r : IsAgainst(r, s) /\ r.status = 200)

Statuses == [i \in 1..Len(responses) |-> responses[i].status]

\* C1: requests served one after the other against a server that was never
\* unreachable and whose counter started at v: the i-th of them is answered
\* 200 with "This page has been seen {v+i} times.", and the key has grown by
\* one per request.
C1_SequentialCounts ==
    ~overlapped =>
        \A s \in Stores \ outage :
            LET r == Against(s)
            IN /\ \A i \in 1..Len(r) :
                     /\ r[i].status = 200
                     /\ r[i].body = <<"This page has been seen ">>
                                        \o Str(InitialValue(s) + i) \o <<" times.">>
               /\ StoredValue(s) = InitialValue(s) + Len(r)

C1_Witness ==
    /\ ~overlapped
    /\ \E s \in Stores \ outage :
          /\ InitialValue(s) = 1
          /\ Len(Against(s)) = 3
          /\ Against(s)[3].body = <<"This page has been seen ", "4", " times.">>

\* C2: a request whose server is unreachable when it calls incr is answered
\* 500 with the fixed apology and logs exactly once; a request answered 200
\* logs nothing.
C2_UnreachableIs500 ==
    \A i \in 1..Len(responses) :
        LET r == responses[i]
        IN r.kind = "return" =>
             /\ ~r.reachable => r.status = 500 /\ r.body = SorryBody /\ r.logs = 1
             /\ r.status = 200 => r.logs = 0

C2_Witness ==
    \E i, j \in 1..Len(responses) :
        /\ responses[i].kind = "return" /\ ~responses[i].reachable
        /\ responses[i].status = 500 /\ responses[i].logs = 1
        /\ responses[j].status = 200 /\ responses[j].logs = 0

\* C3: once N requests against healthy servers have all been answered, the
\* client has been constructed exactly once and incr called exactly N times.
C3_ConstructedOnce ==
    ( /\ InFlight = {}
      /\ outage = {}
      /\ Len(responses) >= 1
      /\ \A i \in 1..Len(responses) : responses[i].status = 200 )
    => Len(constructed) = 1 /\ incrCalls = Len(responses)

\* C4: per server, the stored counter is its initial value plus the number
\* of 200 answers, and the 200 answers carry v+1, v+2, ... in order, whatever
\* 500 answers lie between them.
C4_CounterTracks200 ==
    \A s \in Stores :
        LET ok == Seen(s)
        IN /\ StoredValue(s) = InitialValue(s) + Len(ok)
           /\ \A i \in 1..Len(ok) : ok[i].body = SeenBody(InitialValue(s) + i)

C4_Witness ==
    /\ ~overlapped
    /\ Statuses = <<200, 200, 500, 200>>
    /\ \E s \in Stores :
          /\ initial[s] = None
          /\ Len(Against(s)) = 4
          /\ responses[1].body = <<"This page has been seen ", "1", " times.">>
          /\ responses[2].body = <<"This page has been seen ", "2", " times.">>
          /\ responses[3].body = SorryBody
          /\ responses[4].body = <<"This page has been seen ", "3", " times.">>
          /\ db[s] = Some(3)

IsSeen(r) ==
    /\ r.kind = "return"
    /\ r.status = 200
    /\ \E n \in 1..(MaxInitial + MaxRequests) : r.body = SeenBody(n)
IsSorry(r) == r.kind = "return" /\ r.status = 500 /\ r.body = SorryBody

\* C5 as stated: every request ends with 200 and the count, or with 500 and
\* the fixed apology.
C5_TwoOutcomes ==
    \A i \in 1..Len(responses) : IsSeen(responses[i]) \/ IsSorry(responses[i])

\* C5 as amended: every request ends with 200 and the count, with 500 and
\* the fixed apology, or with the ValueError of Redis.from_url leaving
\* index() uncaught, for a REDIS_URL whose scheme from_url refuses, before
\* any client exists and before incr is called.
C5_ThreeOutcomes ==
    \A i \in 1..Len(responses) :
        LET r == responses[i]
        IN \/ IsSeen(r)
           \/ IsSorry(r)
           \/ /\ r.kind = "raise"
              /\ r.body = <<"ValueError">>
              /\ r.client = None /\ r.attempts = 0
              /\ IsSet(r.url) /\ Get(r.url).scheme \notin {"redis", "rediss", "unix"}

C5_Witness ==
    \E i, j, k \in 1..Len(responses) :
        /\ responses[i].kind = "raise"
        /\ IsSeen(responses[j])
        /\ IsSorry(responses[k])

\* C6: every client is bound to the server REDIS_URL named when the client
\* was constructed, and to localhost:6379 database 0 when it was unset.
C6_TargetFromEnv ==
    \A i \in 1..Len(constructed) :
        LET e == constructed[i]
        IN Target(e.client) =
             IF IsSet(e.env) THEN Target(Get(e.env))
             ELSE [host |-> "localhost", port |-> 6379, db |-> 0]

C6_Witness ==
    \E i, j \in 1..Len(constructed) :
        /\ constructed[i].env = None
        /\ constructed[i].client.host = "localhost"
        /\ constructed[j].env = Some(ServiceUrl)
        /\ constructed[j].client.host = "redis-service"

\* C7: a request that has a client calls incr exactly once, whether the call
\* succeeds or fails, and is answered rather than raising; no request calls
\* incr more than once.
C7_OneAttempt ==
    /\ \A i \in 1..Len(responses) :
          LET r == responses[i]
          IN /\ r.attempts <= 1
             /\ IsSet(r.client) => r.attempts = 1 /\ r.kind = "return"
    /\ incrCalls = Len(SelectSeq(responses, LAMBDA r : IsSet(r.client)))

C7_Witness ==
    \E i, j \in 1..Len(responses) :
        /\ responses[i].status = 500 /\ responses[i].attempts = 1
        /\ responses[j].status = 200 /\ responses[j].attempts = 1
        /\ incrCalls = Len(responses)

\* C8: a request that calls incr is answered 200 exactly when its server is
\* reachable at that moment and 500 exactly when it is not, whatever earlier
\* requests were answered; and a request that starts after a 500 answer is
\* answered, not raised.
C8_NotSticky ==
    \A i \in 1..Len(responses) :
        LET r == responses[i]
        IN /\ r.kind = "return" =>
                /\ r.status = 200 <=> r.reachable
                /\ r.status = 500 <=> ~r.reachable
           /\ (~overlapped /\ \E j \in 1..(i - 1) : responses[j].status = 500)
                => r.kind = "return"

C8_Witness ==
    /\ ~overlapped
    /\ Statuses = <<500, 500, 200, 500>>
    /\ environ = Some(MalformedUrl)

\* C9: once the memo holds a client, it holds that client for good.
C9_HandleStays == [][IsSet(cache) => cache' = cache]_vars

\* C10: whatever the interleaving, the k requests that went to a server that
\* was never unreachable are all answered 200, with pairwise different
\* counts that are exactly v+1 .. v+k, and the stored counter ends at v+k.
C10_DistinctCounts ==
    \A s \in Stores \ outage :
        LET r == Against(s)
            k == Len(r)
        IN /\ \A i \in 1..k : r[i].status = 200
           /\ \A i, j \in 1..k : i # j => r[i].body # r[j].body
           /\ {r[i].body : i \in 1..k} = {SeenBody(InitialValue(s) + i) : i \in 1..k}
           /\ StoredValue(s) = InitialValue(s) + k

C10_Witness ==
    /\ overlapped
    /\ \E s \in Stores \ outage :
          LET r == Against(s)
          IN /\ Len(r) = 3
             /\ r[1].client # r[2].client

====
